---- MODULE Spec2Model ----
(***************************************************************************)
(* Web-Beacon-Scanner (src/script.js, final variant, lines 348-820).       *)
(*                                                                         *)
(* The page scans for Bluetooth LE advertisements, classifies each packet  *)
(* (iBeacon, Eddystone UID/URL/TLM, RuuviTag RAWv2, GATT service) and      *)
(* keeps one card per device, refreshing its RSSI on later packets.        *)
(*                                                                         *)
(* Conventions of the model                                                *)
(*   - a byte is a number 0..255; an ArrayBuffer is a sequence of bytes;   *)
(*   - a DataView is [buffer, byteOffset, byteLength];                     *)
(*   - a JavaScript string that the code computes is the sequence of its   *)
(*     UTF-16 code units (numbers); the fixed tags (beaconData.type, card  *)
(*     titles, ...) are TLA+ strings, they are only ever compared;         *)
(*   - a Map is a function whose DOMAIN is the set of its keys;            *)
(*   - null is the record Null, a thrown RangeError the record RangeError. *)
(***************************************************************************)
EXTENDS Integers, Sequences, FiniteSets, TLC

----------------------------------------------------------------------------
(* Bytes, buffers, DataView                                                *)

Byte == 0..255

\* new DataView(buffer, byteOffset, byteLength) over a whole or partial buffer
View(buffer, byteOffset, byteLength) ==
    [buffer |-> buffer, byteOffset |-> byteOffset, byteLength |-> byteLength]

\* a DataView that covers its whole buffer
Whole(bytes) == View(bytes, 0, Len(bytes))

\* new DataView(data.buffer, data.byteOffset): no length is passed, so the new
\* view runs from data's offset to the END OF THE UNDERLYING BUFFER
DataViewFrom(data) ==
    View(data.buffer, data.byteOffset, Len(data.buffer) - data.byteOffset)

\* DataView.prototype.getUint8 & co. raise RangeError when offset + width
\* exceeds the view; InView is that test, the getters are read only under it
InView(dv, offset, width) == offset + width <= dv.byteLength

getUint8(dv, offset) == dv.buffer[dv.byteOffset + offset + 1]

getInt8(dv, offset) ==
    LET u == getUint8(dv, offset) IN IF u >= 128 THEN u - 256 ELSE u

\* getUint16(offset, false): big endian
getUint16(dv, offset) == getUint8(dv, offset) * 256 + getUint8(dv, offset + 1)

\* getInt16(offset, false): big endian, two's complement
getInt16(dv, offset) ==
    LET u == getUint16(dv, offset) IN IF u >= 32768 THEN u - 65536 ELSE u

\* getUint32(offset, false): big endian
getUint32(dv, offset) ==
    getUint16(dv, offset) * 65536 + getUint16(dv, offset + 2)

\* new Uint8Array(buffer, byteOffset, length)
Uint8Array(buffer, byteOffset, length) ==
    SubSeq(buffer, byteOffset + 1, byteOffset + length)

----------------------------------------------------------------------------
(* Strings as sequences of UTF-16 code units                               *)

RECURSIVE Join(_)
\* Array.prototype.join('') of an array of strings
Join(parts) == IF parts = <<>> THEN <<>> ELSE Head(parts) \o Join(Tail(parts))

\* String.prototype.slice(from, to) for 0 <= from <= to
slice(s, from, to) ==
    SubSeq(s, from + 1, IF to <= Len(s) THEN to ELSE Len(s))

\* String.prototype.toUpperCase on the ASCII range
toUpperCase(s) ==
    [i \in 1..Len(s) |-> IF s[i] >= 97 /\ s[i] <= 122 THEN s[i] - 32 ELSE s[i]]

\* one hexadecimal digit as Number.prototype.toString(16) writes it (lower case)
HexDigit(d) == IF d < 10 THEN 48 + d ELSE 97 + (d - 10)

\* byte.toString(16).padStart(2, '0')
ByteToHex(byte) ==
    IF byte < 16 THEN <<48, HexDigit(byte)>>
    ELSE <<HexDigit(byte \div 16), HexDigit(byte % 16)>>

RECURSIVE NatToString(_)
\* String(n) of a non-negative integer: decimal, no leading zeros
NatToString(n) ==
    IF n < 10 THEN <<48 + n>> ELSE NatToString(n \div 10) \o <<48 + (n % 10)>>

RECURSIVE PadStartZero(_, _)
PadStartZero(s, width) ==
    IF Len(s) >= width THEN s ELSE PadStartZero(<<48>> \o s, width)

\* Number.prototype.toFixed(digits) of the number sign * n / 10^digits, where
\* n is the integer toFixed has chosen: "-" for a negative number (also when n
\* is 0), the integer padded to digits + 1 places, the decimal point inserted
FixedString(negative, n, digits) ==
    LET m == PadStartZero(NatToString(n), digits + 1)
        k == Len(m)
    IN  (IF negative THEN <<45>> ELSE <<>>)
        \o SubSeq(m, 1, k - digits) \o <<46>> \o SubSeq(m, k - digits + 1, k)

\* toFixed's integer for the exact value num / den >= 0: the n for which
\* n / 10^digits is nearest to it, the larger n of two
RoundHalfUp(num, den) == (2 * num + den) \div (2 * den)

----------------------------------------------------------------------------
(* Results of classification                                               *)

\* null: no usable format
Null == [type |-> "null"]

\* a RangeError raised by a DataView getter and not caught by the handler
RangeError == [type |-> "RangeError"]

\* company and service identifiers the handler looks for
APPLE == 76
EDDYSTONE == 65194
RUUVI == 1177
BATTERY_SERVICE == 6159
ENVIRONMENTAL_SENSING == 6170
HEART_RATE == 6157

----------------------------------------------------------------------------
(* bytesToUuid, bytesToHex                                                 *)

\* Array.from(bytes, byte => byte.toString(16).padStart(2, '0'))
HexParts(bytes) == [i \in 1..Len(bytes) |-> ByteToHex(bytes[i])]

\* bytesToUuid(bytes): 8-4-4-4-12 groups joined by "-" (code unit 45), upper case
bytesToUuid(bytes) ==
    LET hex == Join(HexParts(bytes))
    IN  toUpperCase(slice(hex, 0, 8) \o <<45>> \o slice(hex, 8, 12) \o <<45>>
                    \o slice(hex, 12, 16) \o <<45>> \o slice(hex, 16, 20)
                    \o <<45>> \o slice(hex, 20, 32))

\* bytesToHex(data) for a Uint8Array argument (its only use)
bytesToHex(bytes) == toUpperCase(Join(HexParts(bytes)))

----------------------------------------------------------------------------
(* parseIBeacon                                                            *)

\* mutant of parseIBeacon: major and minor read little endian
parseIBeaconLittleEndian(data) ==
    LET dv == DataViewFrom(data)
        uuidBytes == Uint8Array(dv.buffer, dv.byteOffset + 2, 16)
    IN  [type  |-> "iBeacon",
         uuid  |-> bytesToUuid(uuidBytes),
         major |-> getUint8(dv, 19) * 256 + getUint8(dv, 18),
         minor |-> getUint8(dv, 21) * 256 + getUint8(dv, 20)]

\* called only after the handler's check byteLength >= 23, so every read is
\* inside data and therefore inside dv
parseIBeacon(data) ==
    LET dv == DataViewFrom(data)
        uuidBytes == Uint8Array(dv.buffer, dv.byteOffset + 2, 16)
    IN  [type  |-> "iBeacon",
         uuid  |-> bytesToUuid(uuidBytes),
         major |-> getUint16(dv, 18),
         minor |-> getUint16(dv, 20)]

----------------------------------------------------------------------------
(* decodeEddystoneUrl                                                      *)

\* "http://www.", "https://www.", "http://", "https://"
schemes ==
    << <<104,116,116,112,58,47,47,119,119,119,46>>,
       <<104,116,116,112,115,58,47,47,119,119,119,46>>,
       <<104,116,116,112,58,47,47>>,
       <<104,116,116,112,115,58,47,47>> >>

\* ".com/", ".org/", ".edu/", ".net/", ".info/", ".biz/", ".gov/",
\* ".com", ".org", ".edu", ".net/", ".info/", ".biz/", ".gov/"
expansions ==
    << <<46,99,111,109,47>>, <<46,111,114,103,47>>, <<46,101,100,117,47>>,
       <<46,110,101,116,47>>, <<46,105,110,102,111,47>>, <<46,98,105,122,47>>,
       <<46,103,111,118,47>>,
       <<46,99,111,109>>, <<46,111,114,103>>, <<46,101,100,117>>,
       <<46,110,101,116,47>>, <<46,105,110,102,111,47>>, <<46,98,105,122,47>>,
       <<46,103,111,118,47>> >>

RECURSIVE UrlTailFalsyZero(_, _)
\* mutant of UrlTail: the test written if (code && code < expansions.length),
\* so that code 0 is appended as a character
UrlTailFalsyZero(dataView, i) ==
    IF i < dataView.byteLength
    THEN LET code == getUint8(dataView, i)
         IN  (IF code # 0 /\ code < Len(expansions) THEN expansions[code + 1]
              ELSE <<code>>)
             \o UrlTailFalsyZero(dataView, i + 1)
    ELSE <<>>

RECURSIVE UrlTail(_, _)
\* the loop for (let i = 3; i < dataView.byteLength; i++), from index i on
UrlTail(dataView, i) ==
    IF i < dataView.byteLength
    THEN LET code == getUint8(dataView, i)
         IN  (IF code < Len(expansions) THEN expansions[code + 1]
              ELSE <<code>>)                      \* String.fromCharCode(code)
             \o UrlTail(dataView, i + 1)
    ELSE <<>>

\* mutant of decodeEddystoneUrl: the loop starts at the scheme byte (i = 2)
decodeEddystoneUrlFromScheme(dataView) ==
    LET schemeCode == getUint8(dataView, 2)
    IN  (IF schemeCode < Len(schemes) THEN schemes[schemeCode + 1] ELSE <<>>)
        \o UrlTail(dataView, 2)

decodeEddystoneUrl(dataView) ==
    LET schemeCode == getUint8(dataView, 2)
    IN  (IF schemeCode < Len(schemes) THEN schemes[schemeCode + 1] ELSE <<>>)
        \o UrlTail(dataView, 3)

----------------------------------------------------------------------------
(* parseEddystone                                                          *)

\* mutant of TlmTemperature: the integer byte taken as unsigned (getUint8(4))
TlmTemperatureUnsigned(tempInt, tempFrac) ==
    LET k == ((tempInt + 256) % 256) * 256 + tempFrac
    IN  FixedString(FALSE, RoundHalfUp(k * 100, 256), 2)

\* (tempInt + tempFrac / 256.0).toFixed(2): the sum k / 256 is exact in a double
TlmTemperature(tempInt, tempFrac) ==
    LET k == tempInt * 256 + tempFrac
        a == IF k < 0 THEN -k ELSE k
    IN  FixedString(k < 0, RoundHalfUp(a * 100, 256), 2)

\* (u / 10.0).toFixed(1): the double nearest u / 10 rounds back to u tenths
TlmUptime(u) == FixedString(FALSE, u, 1)

\* mutant of parseEddystone: the UID namespace taken from offset 1, so that
\* it starts with the TX power byte
parseEddystoneNamespaceAt1(data) ==
    LET dv == DataViewFrom(data)
    IN  IF dv.byteLength = 0 THEN Null
        ELSE LET frameType == getUint8(dv, 0)
             IN  CASE frameType = 0 ->
                        IF data.byteLength < 18 THEN Null
                        ELSE [type      |-> "Eddystone-UID",
                              namespace |-> bytesToHex(
                                  Uint8Array(dv.buffer, dv.byteOffset + 1, 10)),
                              instance  |-> bytesToHex(
                                  Uint8Array(dv.buffer, dv.byteOffset + 12, 6))]
                   [] frameType = 16 ->
                        IF data.byteLength < 4 THEN Null
                        ELSE [type |-> "Eddystone-URL",
                              url  |-> decodeEddystoneUrl(dv)]
                   [] frameType = 32 ->
                        IF data.byteLength < 14 THEN Null
                        ELSE [type        |-> "Eddystone-TLM",
                              battery     |-> getUint16(dv, 2),
                              temperature |->
                                  TlmTemperature(getInt8(dv, 4), getUint8(dv, 5)),
                              packets     |-> getUint32(dv, 6),
                              uptime      |-> TlmUptime(getUint32(dv, 10))]
                   [] OTHER -> Null

parseEddystone(data) ==
    LET dv == DataViewFrom(data)
    IN  IF dv.byteLength = 0 THEN Null
        ELSE LET frameType == getUint8(dv, 0)
             IN  CASE frameType = 0 ->
                        IF data.byteLength < 18 THEN Null
                        ELSE [type      |-> "Eddystone-UID",
                              namespace |-> bytesToHex(
                                  Uint8Array(dv.buffer, dv.byteOffset + 2, 10)),
                              instance  |-> bytesToHex(
                                  Uint8Array(dv.buffer, dv.byteOffset + 12, 6))]
                   [] frameType = 16 ->
                        IF data.byteLength < 4 THEN Null
                        ELSE [type |-> "Eddystone-URL",
                              url  |-> decodeEddystoneUrl(dv)]
                   [] frameType = 32 ->
                        IF data.byteLength < 14 THEN Null
                        ELSE [type        |-> "Eddystone-TLM",
                              battery     |-> getUint16(dv, 2),
                              temperature |->
                                  TlmTemperature(getInt8(dv, 4), getUint8(dv, 5)),
                              packets     |-> getUint32(dv, 6),
                              uptime      |-> TlmUptime(getUint32(dv, 10))]
                   [] OTHER -> Null

----------------------------------------------------------------------------
(* parseRuuviTag                                                           *)

(* raw * 0.005 is a product of IEEE-754 doubles, and for an odd raw the
   exact value raw / 200 lies halfway between two numbers of two decimals:
   toFixed(2) then goes up exactly when the computed double is not below
   raw / 200. The literal 0.005 is the double (2^60 + 24) / (200 * 2^60), so
   the exact product is q + q * 24 / 2^60 units in the last place, where
   q = a * 2^(60 - s) / 200 and 2^s <= a * 256 / 200 < 2^(s + 1). With
   r = a * 2^(60 - s) mod 200 the fraction of q is r / 200, and the product
   is rounded to nearest, ties to even. *)

RECURSIVE Pow2(_)
Pow2(n) == IF n = 0 THEN 1 ELSE 2 * Pow2(n - 1)

RECURSIVE Pow2Mod(_, _)
\* 2^n mod m
Pow2Mod(n, m) == IF n = 0 THEN 1 % m ELSE (2 * Pow2Mod(n - 1, m)) % m

\* the binary exponent s (offset by 8) of a / 200, for 1 <= a < 2^15
Exponent200(a) ==
    CHOOSE s \in 0..15 : Pow2(s) * 25 <= 32 * a /\ 32 * a < Pow2(s + 1) * 25

\* for an odd a >= 1: the double a * 0.005 is not below a / 200
ProductNotBelow(a) ==
    LET s   == Exponent200(a)
        r   == (a * Pow2Mod(60 - s, 200)) % 200
        r2  == (a * Pow2Mod(60 - s, 400)) % 400
        lhs == r * Pow2(s) + 24 * a
        rhs == 100 * Pow2(s)
    IN  r = 0 \/ lhs > rhs \/ (lhs = rhs /\ r2 >= 200)

\* (raw * 0.005).toFixed(2) for a signed 16-bit raw
RuuviTemperature(raw) ==
    LET a == IF raw < 0 THEN -raw ELSE raw
        n == IF a % 2 = 0 THEN a \div 2
             ELSE IF ProductNotBelow(a) THEN (a + 1) \div 2 ELSE (a - 1) \div 2
    IN  FixedString(raw < 0, n, 2)

\* (raw * 0.0025).toFixed(2) for an unsigned 16-bit raw; 0.0025 is the double
\* 0.005 / 2, so raw * 0.0025 is the double (raw / 2) * 0.005 when raw is even
RuuviHumidity(raw) ==
    LET n == IF raw % 4 = 2
             THEN IF ProductNotBelow(raw \div 2) THEN (raw + 2) \div 4
                  ELSE (raw - 2) \div 4
             ELSE RoundHalfUp(raw, 4)
    IN  FixedString(FALSE, n, 2)

\* ((raw + 50000) / 100.0).toFixed(2): the double nearest k / 100 rounds back
\* to k hundredths
RuuviPressure(raw) == FixedString(FALSE, raw + 50000, 2)

\* mutant of parseRuuviTag: the battery word used without the shift by 5
parseRuuviTagNoShift(data) ==
    LET dv == DataViewFrom(data)
    IN  IF ~InView(dv, 0, 1) THEN RangeError
        ELSE LET format == getUint8(dv, 0)
             IN  IF format = 5
                 THEN IF data.byteLength < 24 THEN Null
                      ELSE [type        |-> "RuuviTag Sensor",
                            temperature |-> RuuviTemperature(getInt16(dv, 1)),
                            humidity    |-> RuuviHumidity(getUint16(dv, 3)),
                            pressure    |-> RuuviPressure(getUint16(dv, 5)),
                            battery     |-> getUint16(dv, 7) + 1600]
                 ELSE Null

parseRuuviTag(data) ==
    LET dv == DataViewFrom(data)
    IN  IF ~InView(dv, 0, 1) THEN RangeError      \* dv.getUint8(0) on an empty view
        ELSE LET format == getUint8(dv, 0)
             IN  IF format = 5
                 THEN IF data.byteLength < 24 THEN Null
                      ELSE [type        |-> "RuuviTag Sensor",
                            temperature |-> RuuviTemperature(getInt16(dv, 1)),
                            humidity    |-> RuuviHumidity(getUint16(dv, 3)),
                            pressure    |-> RuuviPressure(getUint16(dv, 5)),
                            \* (batteryInfo >> 5) + 1600
                            battery     |-> (getUint16(dv, 7) \div 32) + 1600]
                 ELSE Null

----------------------------------------------------------------------------
(* handleAdvertisement, first half: classification                         *)

\* Map.prototype.has / get
has(map, key) == key \in DOMAIN map
get(map, key) == map[key]

\* the handler's own iBeacon test on the 0x004C payload
IsIBeaconPayload(data) ==
    /\ data.byteLength >= 23
    /\ getUint8(data, 0) = 2
    /\ getUint8(data, 1) = 21

\* mutant of GattFallback: the three service keys tested in the opposite order
GattFallbackReversed(event) ==
    IF has(event.serviceData, HEART_RATE)
    THEN [type |-> "GATT-Dienst", name |-> "Herzfrequenzmesser (0x180D)"]
    ELSE IF has(event.serviceData, ENVIRONMENTAL_SENSING)
    THEN [type |-> "GATT-Dienst", name |-> "Umgebungssensor (0x181A)"]
    ELSE IF has(event.serviceData, BATTERY_SERVICE)
    THEN [type |-> "GATT-Dienst", name |-> "Batteriedienst (0x180F)"]
    ELSE Null

\* rule 4: the GATT service fallback
GattFallback(event) ==
    IF has(event.serviceData, BATTERY_SERVICE)
    THEN [type |-> "GATT-Dienst", name |-> "Batteriedienst (0x180F)"]
    ELSE IF has(event.serviceData, ENVIRONMENTAL_SENSING)
    THEN [type |-> "GATT-Dienst", name |-> "Umgebungssensor (0x181A)"]
    ELSE IF has(event.serviceData, HEART_RATE)
    THEN [type |-> "GATT-Dienst", name |-> "Herzfrequenzmesser (0x180D)"]
    ELSE Null

\* mutant of Classify: the Eddystone test placed before the iBeacon test
ClassifyEddystoneFirst(event) ==
    IF has(event.serviceData, EDDYSTONE)
    THEN parseEddystone(get(event.serviceData, EDDYSTONE))
    ELSE IF has(event.manufacturerData, APPLE)
    THEN LET data == get(event.manufacturerData, APPLE)
         IN  IF IsIBeaconPayload(data) THEN parseIBeacon(data) ELSE Null
    ELSE IF has(event.manufacturerData, RUUVI)
    THEN parseRuuviTag(get(event.manufacturerData, RUUVI))
    ELSE GattFallback(event)

\* mutant of Classify: a 0x004C payload that is no iBeacon falls through to
\* the later rules (if (has && valid) ... else if ...)
ClassifyFallThrough(event) ==
    IF has(event.manufacturerData, APPLE)
       /\ IsIBeaconPayload(get(event.manufacturerData, APPLE))
    THEN parseIBeacon(get(event.manufacturerData, APPLE))
    ELSE IF has(event.serviceData, EDDYSTONE)
    THEN parseEddystone(get(event.serviceData, EDDYSTONE))
    ELSE IF has(event.manufacturerData, RUUVI)
    THEN parseRuuviTag(get(event.manufacturerData, RUUVI))
    ELSE GattFallback(event)

\* mutant of Classify: a null from parseEddystone falls back to the RuuviTag
\* and GATT rules
ClassifyEddystoneThenFallback(event) ==
    IF has(event.manufacturerData, APPLE)
    THEN LET data == get(event.manufacturerData, APPLE)
         IN  IF IsIBeaconPayload(data) THEN parseIBeacon(data) ELSE Null
    ELSE IF has(event.serviceData, EDDYSTONE)
            /\ parseEddystone(get(event.serviceData, EDDYSTONE)) # Null
    THEN parseEddystone(get(event.serviceData, EDDYSTONE))
    ELSE IF has(event.manufacturerData, RUUVI)
    THEN parseRuuviTag(get(event.manufacturerData, RUUVI))
    ELSE GattFallback(event)

\* beaconData as the if / else-if chain leaves it (or the RangeError that
\* leaves the handler)
Classify(event) ==
    IF has(event.manufacturerData, APPLE)
    THEN LET data == get(event.manufacturerData, APPLE)
         IN  IF IsIBeaconPayload(data) THEN parseIBeacon(data) ELSE Null
    ELSE IF has(event.serviceData, EDDYSTONE)
    THEN parseEddystone(get(event.serviceData, EDDYSTONE))
    ELSE IF has(event.manufacturerData, RUUVI)
    THEN parseRuuviTag(get(event.manufacturerData, RUUVI))
    ELSE GattFallback(event)

----------------------------------------------------------------------------
(* Cards                                                                   *)

\* the title and border colour createBeaconCard's switch picks
CardTitle(type) ==
    CASE type = "iBeacon" -> "iBeacon"
      [] type = "Eddystone-URL" -> "Eddystone-URL"
      [] type = "Eddystone-UID" -> "Eddystone-UID"
      [] type = "Eddystone-TLM" -> "Eddystone-TLM (Telemetrie)"
      [] type = "RuuviTag Sensor" -> "RuuviTag Sensor (RAWv2)"
      [] type = "GATT-Dienst" -> "GATT-Dienst erkannt"
      [] OTHER -> "Unbekannt"

CardBorder(type) ==
    CASE type = "iBeacon" -> "border-blue-500"
      [] type = "Eddystone-URL" -> "border-green-500"
      [] type = "Eddystone-UID" -> "border-purple-500"
      [] type = "Eddystone-TLM" -> "border-orange-500"
      [] type = "RuuviTag Sensor" -> "border-cyan-500"
      [] type = "GATT-Dienst" -> "border-gray-400"
      [] OTHER -> "border-red-500"

\* createBeaconCard: the new element. content stands for the interpolated
\* fields of beaconData, rssi for the text of the .rssi-value span, flash for
\* the class text-blue-500 on the .rssi-value-wrapper span
createBeaconCard(beaconData, rssi, deviceId) ==
    [deviceId    |-> deviceId,
     title       |-> CardTitle(beaconData.type),
     borderColor |-> CardBorder(beaconData.type),
     content     |-> beaconData,
     rssi        |-> rssi,
     flash       |-> FALSE]

\* mutant of updateBeaconCardRSSI: the flash is set, the text is not written
updateBeaconCardFlashOnly(cardElement, rssi) ==
    [cardElement EXCEPT !.flash = TRUE]

\* updateBeaconCardRSSI: the card after rssiSpan.textContent = rssi and
\* wrapper.classList.add('text-blue-500') (both spans exist in every card
\* createBeaconCard builds); the timeout it sets is the action FlashTimeout
updateBeaconCardRSSI(cardElement, rssi) ==
    [cardElement EXCEPT !.rssi = rssi, !.flash = TRUE]

----------------------------------------------------------------------------
(* Advertisement events the browser can deliver                            *)

\* Example payloads. IBeaconPayload, UrlPayload, TlmPayload and RuuviPayload
\* are the byte strings of the documented wire formats.
IBeaconPayload ==
    Whole(<<2, 21, 1, 2, 3, 4, 5, 6, 7, 8, 9, 10, 11, 12, 13, 14, 15, 16,
            0, 1, 0, 2, 0>>)
\* 0x004C payload with the iBeacon magic but only 5 bytes
AppleShort == Whole(<<2, 21, 1, 2, 3>>)
\* 0x004C payload of 23 bytes that starts 0x12 0x19 (another Apple format)
AppleOther ==
    Whole(<<18, 25, 1, 2, 3, 4, 5, 6, 7, 8, 9, 10, 11, 12, 13, 14, 15, 16,
            0, 1, 0, 2, 0>>)
UidPayload ==
    Whole(<<0, 200, 1, 2, 3, 4, 5, 6, 7, 8, 9, 171, 1, 2, 3, 4, 5, 255>>)
\* [0x10, 0x00, 0x00, 'e','x','a','m','p','l','e', 0x00]
UrlPayload == Whole(<<16, 0, 0, 101, 120, 97, 109, 112, 108, 101, 0>>)
TlmPayload == Whole(<<32, 0, 11, 184, 21, 128, 0, 0, 0, 100, 0, 0, 140, 160>>)
\* frame type 0x30 (Eddystone-EID), not supported
EidPayload == Whole(<<48, 200, 1, 2, 3, 4, 5, 6, 7, 8>>)
\* frame type 0x00 but only 5 bytes
UidShort == Whole(<<0, 200, 1, 2, 3>>)
EmptyPayload == Whole(<<>>)
RuuviPayload ==
    Whole(<<5, 1, 144, 78, 32, 19, 136, 170, 255, 0, 0, 0, 0, 0, 0, 0, 0, 0,
            0, 0, 0, 0, 0, 0>>)
\* RuuviTag format 3 (RAWv1), not supported
RuuviFormat3 == Whole(<<3, 41, 26, 30, 201, 149, 0, 0, 0, 0, 3, 232, 11, 184>>)
\* service data of a GATT service announcement
GattPayload == Whole(<<100>>)

ApplePayloads == {IBeaconPayload, AppleShort, AppleOther}
RuuviPayloads == {RuuviPayload, RuuviFormat3, EmptyPayload}
EddystonePayloads ==
    {UidPayload, UrlPayload, TlmPayload, EidPayload, UidShort, EmptyPayload}

\* every manufacturerData map over the keys 0x004C, 0x0499
ManufacturerMaps ==
    UNION { { m \in [K -> ApplePayloads \cup RuuviPayloads] :
                \A k \in K : m[k] \in (IF k = APPLE THEN ApplePayloads
                                        ELSE RuuviPayloads) } :
            K \in SUBSET {APPLE, RUUVI} }

\* every serviceData map over the keys 0xFEAA, 0x180F, 0x181A, 0x180D
ServiceMaps ==
    UNION { { m \in [K -> EddystonePayloads \cup {GattPayload}] :
                \A k \in K : m[k] \in (IF k = EDDYSTONE THEN EddystonePayloads
                                        ELSE {GattPayload}) } :
            K \in SUBSET {EDDYSTONE, BATTERY_SERVICE, ENVIRONMENTAL_SENSING,
                          HEART_RATE} }

DeviceIds == {"d1", "d2"}
Rssis == {-70, -40}

AdvertisementEvent(deviceId, rssi, manufacturerData, serviceData) ==
    [device           |-> [id |-> deviceId],
     rssi             |-> rssi,
     manufacturerData |-> manufacturerData,
     serviceData      |-> serviceData]

NoMap == <<>>

\* the packets of a scanning session: an iBeacon, an Eddystone-UID and an
\* Eddystone-TLM frame, a truncated 0x004C payload (no result) and an empty
\* 0x0499 payload (parseRuuviTag raises RangeError)
SessionPackets ==
    { <<(APPLE :> IBeaconPayload), NoMap>>,
      <<(APPLE :> AppleShort), NoMap>>,
      <<NoMap, (EDDYSTONE :> UidPayload)>>,
      <<NoMap, (EDDYSTONE :> TlmPayload)>>,
      <<(RUUVI :> EmptyPayload), NoMap>> }

SessionEvents ==
    { AdvertisementEvent(d, r, p[1], p[2]) :
        d \in DeviceIds, r \in Rssis, p \in SessionPackets }

\* for the classifier alone: every combination of the example payloads, from
\* one device
AllEvents ==
    { AdvertisementEvent("d1", -70, m, s) :
        m \in ManufacturerMaps, s \in ServiceMaps }

----------------------------------------------------------------------------
(* State                                                                   *)

VARIABLES
    bluetooth,          \* navigator.bluetooth exists
    startDisabled,      \* scanStartBtn.disabled
    stopDisabled,       \* scanStopBtn.disabled
    requesting,         \* startScan is suspended at await requestLEScan(...)
    scans,              \* the scan objects requestLEScan has returned: scans[i]
                        \* is the flag "active" of the i-th one
    bleScan,            \* the stored scan handle: an index of scans, 0 for null
    listener,           \* handleAdvertisement is registered for 'advertisement'
    discoveredDevices,  \* Map device.id -> {device, cardElement, type}
    cards,              \* every card element created so far, in creation
                        \* order; a cardElement reference is an index of cards
    resultsDiv,         \* the children of resultsDiv, first child first
    lastCall,           \* the locals of the handleAdvertisement call that has
                        \* just returned (NoCall after any other step)
    classified          \* history: the device ids classified successfully
                        \* since the current scan was granted

vars ==
    <<bluetooth, startDisabled, stopDisabled, requesting, scans, bleScan,
      listener, discoveredDevices, cards, resultsDiv, lastCall, classified>>

scanVars == <<bluetooth, startDisabled, stopDisabled, requesting, scans,
              bleScan, listener>>
deviceVars == <<discoveredDevices, cards, resultsDiv>>

\* scan objects one page load may obtain
MaxScans == 2

NoEvent == AdvertisementEvent("", 0, NoMap, NoMap)
NoCall ==
    [called |-> FALSE, event |-> NoEvent, isNew |-> FALSE, beaconData |-> Null]

\* the page after the script has run: empty Map, no scan, and the start
\* button disabled when Web Bluetooth is missing. The stop button starts
\* disabled (index.html).
Init ==
    /\ bluetooth \in BOOLEAN
    /\ startDisabled = ~bluetooth
    /\ stopDisabled = TRUE
    /\ requesting = FALSE
    /\ scans = <<>>
    /\ bleScan = 0
    /\ listener = FALSE
    /\ discoveredDevices = NoMap
    /\ cards = <<>>
    /\ resultsDiv = <<>>
    /\ lastCall = NoCall
    /\ classified = {}

----------------------------------------------------------------------------
(* startScan, stopScan                                                     *)

\* click on the start button, up to the await
StartScan ==
    /\ ~startDisabled
    /\ ~requesting
    /\ IF ~bluetooth
       THEN UNCHANGED <<startDisabled, requesting>>
       ELSE /\ startDisabled' = TRUE
            /\ requesting' = TRUE
    /\ lastCall' = NoCall
    /\ UNCHANGED <<bluetooth, stopDisabled, scans, bleScan, listener>>
    /\ UNCHANGED <<deviceVars, classified>>

\* requestLEScan resolves with a new, active scan
RequestGranted ==
    /\ requesting
    /\ Len(scans) < MaxScans
    /\ scans' = Append(scans, TRUE)
    /\ bleScan' = Len(scans) + 1
    /\ listener' = TRUE
    /\ stopDisabled' = FALSE
    /\ requesting' = FALSE
    /\ lastCall' = NoCall
    /\ classified' = {}
    /\ UNCHANGED <<bluetooth, startDisabled>>
    /\ UNCHANGED deviceVars

\* mutant of RequestRejected: the catch block does not enable the start
\* button again
RequestRejectedStartStaysDisabled ==
    /\ requesting
    /\ requesting' = FALSE
    /\ lastCall' = NoCall
    /\ UNCHANGED <<bluetooth, startDisabled, stopDisabled, scans, bleScan,
                   listener>>
    /\ UNCHANGED <<deviceVars, classified>>

\* requestLEScan rejects: the catch block
RequestRejected ==
    /\ requesting
    /\ startDisabled' = FALSE
    /\ requesting' = FALSE
    /\ lastCall' = NoCall
    /\ UNCHANGED <<bluetooth, stopDisabled, scans, bleScan, listener>>
    /\ UNCHANGED <<deviceVars, classified>>

\* mutant of StopScan: removeEventListener is missing
StopScanKeepsListener(throws) ==
    /\ ~stopDisabled
    /\ IF bleScan # 0 /\ ~throws
       THEN /\ scans' = [scans EXCEPT ![bleScan] = FALSE]
            /\ bleScan' = 0
       ELSE UNCHANGED <<scans, bleScan>>
    /\ startDisabled' = FALSE
    /\ stopDisabled' = TRUE
    /\ lastCall' = NoCall
    /\ UNCHANGED <<bluetooth, requesting, listener>>
    /\ UNCHANGED <<deviceVars, classified>>

\* mutant of StopScan: bleScan = null stands behind the try block, so the
\* handle is reset also when stop() threw
StopScanResetsAlways(throws) ==
    /\ ~stopDisabled
    /\ listener' = FALSE
    /\ IF bleScan # 0
       THEN /\ scans' = [scans EXCEPT ![bleScan] = scans[bleScan] /\ throws]
            /\ bleScan' = 0
       ELSE UNCHANGED <<scans, bleScan>>
    /\ startDisabled' = FALSE
    /\ stopDisabled' = TRUE
    /\ lastCall' = NoCall
    /\ UNCHANGED <<bluetooth, requesting>>
    /\ UNCHANGED <<deviceVars, classified>>

\* click on the stop button; bleScan.stop() returns or throws
StopScan(throws) ==
    /\ ~stopDisabled
    /\ listener' = FALSE
    /\ IF bleScan # 0 /\ ~throws
       THEN /\ scans' = [scans EXCEPT ![bleScan] = FALSE]
            /\ bleScan' = 0
       ELSE UNCHANGED <<scans, bleScan>>
    /\ startDisabled' = FALSE
    /\ stopDisabled' = TRUE
    /\ lastCall' = NoCall
    /\ UNCHANGED <<bluetooth, requesting>>
    /\ UNCHANGED <<deviceVars, classified>>

----------------------------------------------------------------------------
(* handleAdvertisement                                                     *)

\* discoveredDevices.set(deviceId, {device, cardElement, type})
MapSet(map, key, value) ==
    [k \in DOMAIN map \cup {key} |-> IF k = key THEN value ELSE map[k]]

\* mutant of IsNew: every packet is taken for a new device
IsNewAlways(deviceId) == TRUE

\* const isNew = !discoveredDevices.has(deviceId)
IsNew(deviceId) == ~has(discoveredDevices, deviceId)

\* mutant of NoBeacon: the early return is missing
NoBeaconNever(beaconData) == FALSE

\* if (!beaconData) return
NoBeacon(beaconData) == beaconData = Null

\* mutant of HandleAdvertisement: a device that has a record is not
\* classified again, the type stored in its record is reused
HandleAdvertisementKnownFromRecord(event) ==
    LET deviceId   == event.device.id
        rssi       == event.rssi
        isNew      == IsNew(deviceId)
        beaconData == IF isNew THEN Classify(event)
                      ELSE [type |-> get(discoveredDevices, deviceId).type]
    IN  /\ lastCall' = [called |-> TRUE, event |-> event, isNew |-> isNew,
                        beaconData |-> beaconData]
        /\ IF beaconData = RangeError \/ NoBeacon(beaconData)
           THEN UNCHANGED <<deviceVars, classified>>
           ELSE /\ classified' = classified \cup {deviceId}
                /\ IF isNew
                   THEN LET cardElement == Len(cards) + 1
                        IN  /\ cards' = Append(cards,
                                   createBeaconCard(beaconData, rssi, deviceId))
                            /\ resultsDiv' = <<cardElement>> \o resultsDiv
                            /\ discoveredDevices' =
                                   MapSet(discoveredDevices, deviceId,
                                          [device      |-> event.device,
                                           cardElement |-> cardElement,
                                           type        |-> beaconData.type])
                   ELSE LET existing == get(discoveredDevices, deviceId)
                            c == existing.cardElement
                        IN  /\ cards' = [cards EXCEPT
                                   ![c] = updateBeaconCardRSSI(cards[c], rssi)]
                            /\ UNCHANGED <<discoveredDevices, resultsDiv>>
        /\ UNCHANGED scanVars

\* mutant of HandleAdvertisement: resultsDiv.append instead of prepend
HandleAdvertisementAppends(event) ==
    LET deviceId   == event.device.id
        rssi       == event.rssi
        isNew      == IsNew(deviceId)
        beaconData == Classify(event)
    IN  /\ lastCall' = [called |-> TRUE, event |-> event, isNew |-> isNew,
                        beaconData |-> beaconData]
        /\ IF beaconData = RangeError \/ NoBeacon(beaconData)
           THEN UNCHANGED <<deviceVars, classified>>
           ELSE /\ classified' = classified \cup {deviceId}
                /\ IF isNew
                   THEN LET cardElement == Len(cards) + 1
                        IN  /\ cards' = Append(cards,
                                   createBeaconCard(beaconData, rssi, deviceId))
                            /\ resultsDiv' = Append(resultsDiv, cardElement)
                            /\ discoveredDevices' =
                                   MapSet(discoveredDevices, deviceId,
                                          [device      |-> event.device,
                                           cardElement |-> cardElement,
                                           type        |-> beaconData.type])
                   ELSE LET existing == get(discoveredDevices, deviceId)
                            c == existing.cardElement
                        IN  /\ cards' = [cards EXCEPT
                                   ![c] = updateBeaconCardRSSI(cards[c], rssi)]
                            /\ UNCHANGED <<discoveredDevices, resultsDiv>>
        /\ UNCHANGED scanVars

HandleAdvertisement(event) ==
    LET deviceId   == event.device.id
        rssi       == event.rssi
        isNew      == IsNew(deviceId)
        beaconData == Classify(event)
    IN  /\ lastCall' = [called |-> TRUE, event |-> event, isNew |-> isNew,
                        beaconData |-> beaconData]
        /\ IF beaconData = RangeError \/ NoBeacon(beaconData)
           THEN UNCHANGED <<deviceVars, classified>>
           ELSE /\ classified' = classified \cup {deviceId}
                /\ IF isNew
                   THEN LET cardElement == Len(cards) + 1
                        IN  /\ cards' = Append(cards,
                                   createBeaconCard(beaconData, rssi, deviceId))
                            \* resultsDiv.prepend(cardElement)
                            /\ resultsDiv' = <<cardElement>> \o resultsDiv
                            /\ discoveredDevices' =
                                   MapSet(discoveredDevices, deviceId,
                                          [device      |-> event.device,
                                           cardElement |-> cardElement,
                                           type        |-> beaconData.type])
                   ELSE LET existing == get(discoveredDevices, deviceId)
                            c == existing.cardElement
                        IN  /\ cards' = [cards EXCEPT
                                   ![c] = updateBeaconCardRSSI(cards[c], rssi)]
                            /\ UNCHANGED <<discoveredDevices, resultsDiv>>
        /\ UNCHANGED scanVars

\* the browser dispatches an advertisement of an active scan to the listener
Advertisement ==
    /\ listener
    /\ \E i \in 1..Len(scans) : scans[i]
    /\ \E event \in SessionEvents : HandleAdvertisement(event)

\* a timeout set by updateBeaconCardRSSI fires, 300 ms after an update:
\* wrapper.classList.remove('text-blue-500'). Every update that sets the class
\* also sets a timeout, so one is pending whenever the class is set; a timeout
\* that finds the class already removed changes nothing and is not modelled.
FlashTimeout ==
    \E c \in 1..Len(cards) :
        /\ cards[c].flash
        /\ cards' = [cards EXCEPT ![c].flash = FALSE]
        /\ lastCall' = NoCall
        /\ UNCHANGED <<discoveredDevices, resultsDiv, classified>>
        /\ UNCHANGED scanVars

Next ==
    \/ StartScan
    \/ RequestGranted
    \/ RequestRejected
    \/ \E throws \in BOOLEAN : StopScan(throws)
    \/ Advertisement
    \/ FlashTimeout

Spec == Init /\ [][Next]_vars

----------------------------------------------------------------------------
(* The classifier alone: the first advertisement after a scan was granted, *)
(* drawn from every combination of the example payloads                    *)

\* a scan is active and the listener registered; no device is known yet, or
\* d1 is known as an iBeacon from an earlier packet
ClassifyInit ==
    /\ bluetooth = TRUE
    /\ startDisabled = TRUE
    /\ stopDisabled = FALSE
    /\ requesting = FALSE
    /\ scans = <<TRUE>>
    /\ bleScan = 1
    /\ listener = TRUE
    /\ lastCall = NoCall
    /\ \/ /\ discoveredDevices = NoMap
          /\ cards = <<>>
          /\ resultsDiv = <<>>
          /\ classified = {}
       \/ /\ discoveredDevices =
                ("d1" :> [device |-> [id |-> "d1"], cardElement |-> 1,
                          type |-> "iBeacon"])
          /\ cards = <<createBeaconCard(parseIBeacon(IBeaconPayload), -40, "d1")>>
          /\ resultsDiv = <<1>>
          /\ classified = {"d1"}

FirstAdvertisement ==
    /\ ~lastCall.called
    /\ listener
    /\ \E event \in AllEvents : HandleAdvertisement(event)

ClassifyNext == FirstAdvertisement

ClassifySpec == ClassifyInit /\ [][ClassifyNext]_vars

----------------------------------------------------------------------------
(* The decoders alone: one advertisement whose payload is drawn from       *)
(* families of byte strings, one family per wire format                    *)

\* the first n bytes of a byte string
Take(bytes, n) == SubSeq(bytes, 1, n)

\* the ways a payload of the given bytes can lie in its ArrayBuffer: alone,
\* or between two leading bytes and the given trailing bytes
Views(bytes, trailing) ==
    {Whole(bytes)}
    \cup {View(<<9, 9>> \o bytes \o t, 2, Len(bytes)) : t \in trailing}

\* bytes that may follow a payload in its buffer
Trailing == {<<100>>, <<5, 98, 0>>}

\* a packet whose only entry is manufacturer data under the given company
ManufacturerEvent(company, data) ==
    AdvertisementEvent("d1", -70, (company :> data), NoMap)

\* a packet whose only entry is service data under 0xFEAA
EddystoneEvent(data) ==
    AdvertisementEvent("d1", -70, NoMap, (EDDYSTONE :> data))

\* every truncation of a byte string, as a buffer of its own and as a
\* shorter view of the whole string
Truncations(bytes) ==
    UNION { {Whole(Take(bytes, n)), View(bytes, 0, n)} : n \in 0..Len(bytes) }

\* truncated payloads of the five formats, from length 0 on
ShortEvents ==
    {ManufacturerEvent(APPLE, d) : d \in Truncations(IBeaconPayload.buffer)}
    \cup {EddystoneEvent(d) :
            d \in Truncations(UidPayload.buffer)
                  \cup Truncations(UrlPayload.buffer)
                  \cup Truncations(TlmPayload.buffer)}
    \cup {ManufacturerEvent(RUUVI, d) : d \in Truncations(RuuviPayload.buffer)}

\* each action below is the one handleAdvertisement call of a behaviour, on
\* an event of its family
ShortAdvertisement ==
    /\ ~lastCall.called
    /\ listener
    /\ \E event \in ShortEvents : HandleAdvertisement(event)

\* the UUID 01020304-...-0F10 of IBeaconPayload, and the byte strings that
\* differ from it in one place
UuidBase == SubSeq(IBeaconPayload.buffer, 3, 18)
BodySamples ==
    {UuidBase}
    \cup {[UuidBase EXCEPT ![i] = v] : i \in 1..16, v \in {0, 10, 171, 255}}

\* big-endian 16-bit fields
WordSamples == {<<0, 1>>, <<1, 0>>, <<128, 2>>, <<255, 255>>}

\* 0x004C payloads with the iBeacon magic: UUID, major, minor, then byte 22
\* and what follows it
IBeaconBytes ==
    {<<2, 21>> \o UuidBase \o major \o minor \o rest :
        major \in WordSamples, minor \in WordSamples,
        rest \in {<<0>>, <<197>>, <<0, 7, 7>>}}
    \cup {<<2, 21>> \o uuid \o <<0, 1, 0, 2, 0>> : uuid \in BodySamples}

IBeaconEvents ==
    {ManufacturerEvent(APPLE, d) :
        d \in UNION {Views(b, Trailing) : b \in IBeaconBytes}}

IBeaconAdvertisement ==
    /\ ~lastCall.called
    /\ listener
    /\ \E event \in IBeaconEvents : HandleAdvertisement(event)

\* 0xFEAA payloads of 18 bytes and more: every sample frame type and TX power
\* before the bytes 1..16, and UID frames with each body sample
FrameTypes == {0, 16, 32, 1, 15, 17, 48, 255}
TxPowers == {0, 200, 255}
FrameBytes ==
    {<<frameType, tx>> \o UuidBase :
        frameType \in FrameTypes, tx \in TxPowers}
    \cup {<<0, tx>> \o body \o rest :
            tx \in TxPowers, body \in BodySamples, rest \in {<<>>, <<7>>}}

FrameEvents ==
    {EddystoneEvent(d) : d \in UNION {Views(b, Trailing) : b \in FrameBytes}}

FrameAdvertisement ==
    /\ ~lastCall.called
    /\ listener
    /\ \E event \in FrameEvents : HandleAdvertisement(event)

\* the non-empty byte strings of at most n bytes from S
Strings(S, n) == UNION {[1..k -> S] : k \in 1..n}

\* encoded bytes of an Eddystone-URL after the scheme byte
MaxUrlBody == 2

UrlBytes == {0, 7, 10, 13, 14, 46, 47, 97, 255}
SchemeCodes == {0, 1, 2, 3, 4, 255}

\* Eddystone-URL frames: each scheme code before each short body and before
\* each single byte, and the documented example
UrlFrameBytes ==
    {<<16, 0, schemeCode>> \o body :
        schemeCode \in SchemeCodes,
        body \in Strings(UrlBytes, MaxUrlBody) \cup {<<b>> : b \in Byte}}
    \cup {<<16, 200, 2>> \o body : body \in Strings(UrlBytes, MaxUrlBody)}
    \cup {UrlPayload.buffer}

UrlEvents ==
    {EddystoneEvent(d) : d \in UNION {Views(b, Trailing) : b \in UrlFrameBytes}}

UrlAdvertisement ==
    /\ ~lastCall.called
    /\ listener
    /\ \E event \in UrlEvents : HandleAdvertisement(event)

\* Eddystone-TLM frames: every temperature with integer byte 0, 1, 21, 127,
\* 128, 254 or 255, and combinations of battery, packet count and uptime
\* (packet counts and uptimes below 2^31)
TlmFrameBytes ==
    {<<32, 0, 11, 184, tempInt, tempFrac, 0, 0, 0, 100, 0, 0, 140, 160>> :
        tempInt \in {0, 1, 21, 127, 128, 254, 255}, tempFrac \in Byte}
    \cup {<<32, 200>> \o battery \o temp \o packets \o uptime \o rest :
            battery \in WordSamples \cup {<<11, 184>>},
            temp \in {<<21, 128>>, <<255, 255>>},
            packets \in {<<0, 0, 0, 100>>, <<0, 1, 0, 0>>, <<1, 2, 3, 4>>,
                         <<127, 255, 255, 255>>},
            uptime \in {<<0, 0, 140, 160>>, <<0, 0, 0, 0>>, <<0, 0, 0, 9>>,
                        <<127, 255, 255, 255>>},
            rest \in {<<>>, <<7>>}}

TlmEvents ==
    {EddystoneEvent(d) : d \in UNION {Views(b, Trailing) : b \in TlmFrameBytes}}

TlmAdvertisement ==
    /\ ~lastCall.called
    /\ listener
    /\ \E event \in TlmEvents : HandleAdvertisement(event)

\* 0x0499 payloads of 24 bytes and more: format 5 with a range of
\* temperatures, humidities, pressures and battery words, and other formats
RuuviRest == <<0, 0, 0, 0, 0, 0, 0, 0, 0, 0, 0, 0, 0, 0, 0>>
RuuviBytes ==
    {<<5, t1, t2, 78, 32, 19, 136, 170, 255>> \o RuuviRest :
        t1 \in {0, 1, 127, 128, 255}, t2 \in Byte}
    \cup {<<5, 1, 144, h1, h2, 19, 136, 170, 255>> \o RuuviRest :
            h1 \in {0, 78, 255}, h2 \in Byte}
    \cup {<<5, 1, 144, 78, 32>> \o pressure \o <<b1, b2>> \o RuuviRest \o rest :
            pressure \in WordSamples \cup {<<19, 136>>, <<0, 0>>},
            b1 \in {0, 170, 255}, b2 \in {0, 31, 32, 224, 255},
            rest \in {<<>>, <<7>>}}
    \cup {<<format, 1, 144, 78, 32, 19, 136, 170, 255>> \o RuuviRest :
            format \in {0, 3, 4, 5, 6, 255}}

RuuviEvents ==
    {ManufacturerEvent(RUUVI, d) :
        d \in UNION {Views(b, Trailing) : b \in RuuviBytes}}

RuuviAdvertisement ==
    /\ ~lastCall.called
    /\ listener
    /\ \E event \in RuuviEvents : HandleAdvertisement(event)

\* s starts with the string prefix
StartsWith(s, prefix) ==
    Len(prefix) <= Len(s) /\ SubSeq(s, 1, Len(prefix)) = prefix

RECURSIVE EncodeSuffix(_)
\* the shortest byte string that decodes to the suffix: wherever an entry of
\* the expansion table begins, the code of the longest such entry (the lowest
\* code of equal entries), a literal character otherwise
EncodeSuffix(suffix) ==
    IF suffix = <<>> THEN <<>>
    ELSE LET codes == {c \in 0..(Len(expansions) - 1) :
                          StartsWith(suffix, expansions[c + 1])}
         IN  IF codes = {} THEN <<suffix[1]>> \o EncodeSuffix(Tail(suffix))
             ELSE LET code == CHOOSE c \in codes : \A d \in codes :
                                 \/ Len(expansions[c + 1]) > Len(expansions[d + 1])
                                 \/ /\ Len(expansions[c + 1]) = Len(expansions[d + 1])
                                    /\ c <= d
                  IN  <<code>> \o EncodeSuffix(SubSeq(suffix,
                                     Len(expansions[code + 1]) + 1, Len(suffix)))

\* encodeUrl(scheme, suffix): the scheme code, then the encoded suffix
encodeUrl(schemeCode, suffix) == <<schemeCode>> \o EncodeSuffix(suffix)

\* pieces a URL suffix is built from
MaxTokens == 2

\* the entries of the expansion table and pieces of literal characters:
\* "a", "/", ".", ".co", "m", "m/", ".net"
SuffixTokens ==
    {expansions[i] : i \in 1..Len(expansions)}
    \cup {<<97>>, <<47>>, <<46>>, <<46, 99, 111>>, <<109>>, <<109, 47>>,
          <<46, 110, 101, 116>>}

Suffixes == {Join(tokens) : tokens \in Strings(SuffixTokens, MaxTokens)}

\* a beacon broadcasts the encoding of a URL as a URL frame with TX power 0
UrlRoundTripEvents ==
    {EddystoneEvent(Whole(<<16, 0>> \o encodeUrl(schemeCode, suffix))) :
        schemeCode \in 0..3, suffix \in Suffixes}

UrlRoundTrip ==
    /\ ~lastCall.called
    /\ listener
    /\ \E event \in UrlRoundTripEvents : HandleAdvertisement(event)

DecodeNext ==
    \/ ShortAdvertisement
    \/ IBeaconAdvertisement
    \/ FrameAdvertisement
    \/ UrlAdvertisement
    \/ UrlRoundTrip
    \/ TlmAdvertisement
    \/ RuuviAdvertisement

DecodeSpec == ClassifyInit /\ [][DecodeNext]_vars

----------------------------------------------------------------------------
(* Properties                                                              *)

\* the call that has just returned classified its packet successfully
Succeeded(call) ==
    call.called /\ call.beaconData # Null /\ call.beaconData # RangeError

\* the card elements ever created for a device
CardsOf(cs, d) == {c \in 1..Len(cs) : cs[c].deviceId = d}

\* the 0x004C entry of a packet is a valid iBeacon: at least 23 bytes that
\* start 0x02 0x15 (read from the raw buffer)
ValidIBeaconEntry(event) ==
    /\ APPLE \in DOMAIN event.manufacturerData
    /\ LET p == event.manufacturerData[APPLE]
       IN  /\ p.byteLength >= 23
           /\ p.buffer[p.byteOffset + 1] = 2
           /\ p.buffer[p.byteOffset + 2] = 21

\* C1: a device gets its record and its card exactly once, by its first
\* successfully classified packet (no card of it exists yet); every later
\* successfully classified packet of the device is an update that creates
\* neither a record nor a card.
C1_CreatedOnceThenUpdated ==
    /\ [](\A d \in DeviceIds : Cardinality(CardsOf(cards, d)) <= 1)
    /\ [][Succeeded(lastCall') =>
            LET d == lastCall'.event.device.id
            IN  IF CardsOf(cards, d) = {}
                THEN /\ ~has(discoveredDevices, d)
                     /\ has(discoveredDevices', d)
                     /\ Cardinality(CardsOf(cards', d)) = 1
                     /\ Len(cards') = Len(cards) + 1
                     /\ Len(resultsDiv') = Len(resultsDiv) + 1
                ELSE /\ has(discoveredDevices, d)
                     /\ DOMAIN discoveredDevices' = DOMAIN discoveredDevices
                     /\ discoveredDevices'[d].cardElement =
                            discoveredDevices[d].cardElement
                     /\ Len(cards') = Len(cards)
                     /\ resultsDiv' = resultsDiv]_vars

\* a known device has just been updated by a further successful packet
C1_Witness ==
    /\ Succeeded(lastCall)
    /\ ~lastCall.isNew
    /\ Cardinality(CardsOf(cards, lastCall.event.device.id)) = 1
    /\ has(discoveredDevices, lastCall.event.device.id)

\* C2: the type stored in a device's record, and the title and content of
\* its card, are the same after every step, whatever the packet classifies as.
C2_TypeNeverChanges ==
    [][\A d \in DOMAIN discoveredDevices \cap DOMAIN discoveredDevices' :
          LET old == discoveredDevices[d]
              new == discoveredDevices'[d]
          IN  /\ new.type = old.type
              /\ cards'[new.cardElement].title = cards[old.cardElement].title
              /\ cards'[new.cardElement].content =
                     cards[old.cardElement].content]_vars

\* a device known as Eddystone-UID has just sent an Eddystone-TLM frame
C2_Witness ==
    /\ Succeeded(lastCall)
    /\ ~lastCall.isNew
    /\ lastCall.beaconData.type = "Eddystone-TLM"
    /\ has(discoveredDevices, lastCall.event.device.id)
    /\ discoveredDevices[lastCall.event.device.id].type = "Eddystone-UID"

\* C3: after a step the RSSI on a known device's card is the rssi of the
\* packet if the step handled a successfully classified packet of that
\* device, and the RSSI it had before otherwise; an update leaves the Map,
\* the card list, every other card and every other field of the card as they
\* were (the flash class apart).
C3_LastRssi ==
    [][\A d \in DOMAIN discoveredDevices' :
          LET new == cards'[discoveredDevices'[d].cardElement]
          IN  IF Succeeded(lastCall') /\ lastCall'.event.device.id = d
              THEN /\ new.rssi = lastCall'.event.rssi
                   /\ has(discoveredDevices, d) =>
                        /\ discoveredDevices' = discoveredDevices
                        /\ resultsDiv' = resultsDiv
                        /\ Len(cards') = Len(cards)
                        /\ \A c \in 1..Len(cards) :
                             IF c = discoveredDevices[d].cardElement
                             THEN [cards'[c] EXCEPT !.rssi = cards[c].rssi,
                                                    !.flash = cards[c].flash]
                                  = cards[c]
                             ELSE cards'[c] = cards[c]
              ELSE /\ has(discoveredDevices, d)
                   /\ new.rssi = cards[discoveredDevices[d].cardElement].rssi
      ]_vars

\* both devices are known, one has just been updated to an rssi that differs
\* from the other's
C3_Witness ==
    /\ Succeeded(lastCall)
    /\ ~lastCall.isNew
    /\ DOMAIN discoveredDevices = DeviceIds
    /\ \A d \in DeviceIds :
          cards[discoveredDevices[d].cardElement].rssi =
              (IF d = lastCall.event.device.id THEN lastCall.event.rssi
               ELSE -70)
    /\ lastCall.event.rssi = -40

\* C4: a call whose classification gave null changes neither the Map nor any
\* card nor the card list.
C4_NoResultNoChange ==
    [][lastCall'.called /\ lastCall'.beaconData = Null =>
          UNCHANGED <<discoveredDevices, cards, resultsDiv>>]_vars

\* a known device has just sent a packet that classified as null
C4_Witness ==
    /\ lastCall.called
    /\ lastCall.beaconData = Null
    /\ ~lastCall.isNew
    /\ has(discoveredDevices, lastCall.event.device.id)

\* C5 as claimed: the size of the Map is the number of distinct device ids
\* classified successfully in the current scanning session.
C5_SizeIsSessionCount ==
    Cardinality(DOMAIN discoveredDevices) = Cardinality(classified)

\* C6 as claimed: stopScan (the stop button goes from enabled to disabled)
\* leaves the Map empty, and the first successfully classified packet a
\* device sends in a session finds no record of it.
C6_StopEmptiesRegistry ==
    [][/\ (~stopDisabled /\ stopDisabled') => discoveredDevices' = NoMap
       /\ (Succeeded(lastCall')
            /\ lastCall'.event.device.id \notin classified)
          => lastCall'.isNew]_vars

\* C7: a packet with a valid iBeacon entry under 0x004C and any entry under
\* 0xFEAA classifies as iBeacon.
C7_IBeaconBeforeEddystone ==
    (/\ lastCall.called
     /\ ValidIBeaconEntry(lastCall.event)
     /\ EDDYSTONE \in DOMAIN lastCall.event.serviceData)
    => lastCall.beaconData.type = "iBeacon"

\* a valid iBeacon entry together with a decodable Eddystone-UID frame
C7_Witness ==
    /\ lastCall.called
    /\ ValidIBeaconEntry(lastCall.event)
    /\ EDDYSTONE \in DOMAIN lastCall.event.serviceData
    /\ lastCall.event.serviceData[EDDYSTONE] = UidPayload
    /\ lastCall.beaconData.type = "iBeacon"

\* the packet without its 0x004C entry
WithoutApple(event) ==
    [event EXCEPT !.manufacturerData =
        [k \in DOMAIN event.manufacturerData \ {APPLE} |->
            event.manufacturerData[k]]]

\* C8 as claimed: with a 0x004C entry that is no valid iBeacon the later
\* rules decide, so the result is that of the packet without the entry.
C8_InvalidAppleFallsThrough ==
    (/\ lastCall.called
     /\ APPLE \in DOMAIN lastCall.event.manufacturerData
     /\ ~ValidIBeaconEntry(lastCall.event))
    => lastCall.beaconData = Classify(WithoutApple(lastCall.event))

\* C8 amended: with a 0x004C entry that is no valid iBeacon the result is
\* null, whatever else the packet carries.
C8_InvalidAppleEndsClassification ==
    (/\ lastCall.called
     /\ APPLE \in DOMAIN lastCall.event.manufacturerData
     /\ ~ValidIBeaconEntry(lastCall.event))
    => lastCall.beaconData = Null

\* a truncated 0x004C entry next to a decodable Eddystone-UID frame, a valid
\* RuuviTag entry and a battery service entry: null
C8_Witness ==
    /\ lastCall.called
    /\ APPLE \in DOMAIN lastCall.event.manufacturerData
    /\ lastCall.event.manufacturerData[APPLE] = AppleShort
    /\ EDDYSTONE \in DOMAIN lastCall.event.serviceData
    /\ lastCall.event.serviceData[EDDYSTONE] = UidPayload
    /\ RUUVI \in DOMAIN lastCall.event.manufacturerData
    /\ lastCall.event.manufacturerData[RUUVI] = RuuviPayload
    /\ BATTERY_SERVICE \in DOMAIN lastCall.event.serviceData
    /\ lastCall.beaconData = Null

\* C9: with no valid iBeacon entry and an 0xFEAA entry the Eddystone decoder
\* returns null for, the result is null, whatever else the packet carries.
C9_EddystoneResultIsFinal ==
    (/\ lastCall.called
     /\ ~ValidIBeaconEntry(lastCall.event)
     /\ EDDYSTONE \in DOMAIN lastCall.event.serviceData
     /\ parseEddystone(lastCall.event.serviceData[EDDYSTONE]) = Null)
    => lastCall.beaconData = Null

\* an unsupported Eddystone frame next to a valid RuuviTag entry and all
\* three GATT service entries, no 0x004C entry: null
C9_Witness ==
    /\ lastCall.called
    /\ APPLE \notin DOMAIN lastCall.event.manufacturerData
    /\ EDDYSTONE \in DOMAIN lastCall.event.serviceData
    /\ lastCall.event.serviceData[EDDYSTONE] = EidPayload
    /\ RUUVI \in DOMAIN lastCall.event.manufacturerData
    /\ lastCall.event.manufacturerData[RUUVI] = RuuviPayload
    /\ {BATTERY_SERVICE, ENVIRONMENTAL_SENSING, HEART_RATE}
          \subseteq DOMAIN lastCall.event.serviceData
    /\ lastCall.beaconData = Null

\* the GATT service keys by priority, with the names announced for them
GattPriority ==
    << <<BATTERY_SERVICE, "Batteriedienst (0x180F)">>,
       <<ENVIRONMENTAL_SENSING, "Umgebungssensor (0x181A)">>,
       <<HEART_RATE, "Herzfrequenzmesser (0x180D)">> >>

\* C10: a GATT announcement results only from a packet with none of the keys
\* 0x004C, 0xFEAA, 0x0499; such a packet gives the announcement of the first
\* key of the priority list it carries and no other, and null if it carries
\* none of them.
C10_GattFallbackPriority ==
    lastCall.called =>
        LET event   == lastCall.event
            earlier == \/ APPLE \in DOMAIN event.manufacturerData
                       \/ EDDYSTONE \in DOMAIN event.serviceData
                       \/ RUUVI \in DOMAIN event.manufacturerData
            present == {i \in 1..Len(GattPriority) :
                           GattPriority[i][1] \in DOMAIN event.serviceData}
        IN  /\ lastCall.beaconData.type = "GATT-Dienst" => ~earlier
            /\ ~earlier =>
                 IF present = {} THEN lastCall.beaconData = Null
                 ELSE LET first == CHOOSE i \in present :
                                       \A j \in present : i <= j
                      IN  lastCall.beaconData =
                              [type |-> "GATT-Dienst",
                               name |-> GattPriority[first][2]]

\* all three GATT service entries and none of the earlier keys: the battery
\* service is announced
C10_Witness ==
    /\ lastCall.called
    /\ lastCall.event.manufacturerData = NoMap
    /\ DOMAIN lastCall.event.serviceData =
          {BATTERY_SERVICE, ENVIRONMENTAL_SENSING, HEART_RATE}
    /\ lastCall.beaconData =
          [type |-> "GATT-Dienst", name |-> "Batteriedienst (0x180F)"]

\* the bytes of a payload: those of its buffer that lie inside the view
PayloadBytes(data) ==
    SubSeq(data.buffer, data.byteOffset + 1, data.byteOffset + data.byteLength)

\* the packet's only entry is a payload shorter than the minimum of its
\* format: iBeacon 23, RuuviTag 24, Eddystone-UID 18, -URL 4, -TLM 14 (the
\* Eddystone format is that of the frame type byte; an empty payload is
\* shorter than every minimum)
ShortPayload(event) ==
    LET md == event.manufacturerData
        sd == event.serviceData
    IN  \/ /\ DOMAIN md = {APPLE} /\ sd = NoMap
           /\ md[APPLE].byteLength < 23
        \/ /\ DOMAIN md = {RUUVI} /\ sd = NoMap
           /\ md[RUUVI].byteLength < 24
        \/ /\ md = NoMap /\ DOMAIN sd = {EDDYSTONE}
           /\ LET bytes == PayloadBytes(sd[EDDYSTONE])
              IN  \/ bytes = <<>>
                  \/ bytes[1] = 0 /\ Len(bytes) < 18
                  \/ bytes[1] = 16 /\ Len(bytes) < 4
                  \/ bytes[1] = 32 /\ Len(bytes) < 14

\* C11 as claimed: handling a packet never raises an exception, whatever the
\* payloads are (empty, undersized, unknown magic, frame or format byte): the
\* classification ends in a record or in null.
C11_NeverRaises ==
    lastCall.called => lastCall.beaconData # RangeError

\* C12 as claimed: a payload shorter than the minimum of its format, from
\* length 0 on, gives no result and leaves the Map, the cards and the card
\* list as they were.
C12_ShortPayloadNoResult ==
    [][(lastCall'.called /\ ShortPayload(lastCall'.event)) =>
          /\ lastCall'.beaconData = Null
          /\ UNCHANGED <<discoveredDevices, cards, resultsDiv>>]_vars

\* "0123456789ABCDEF"
UpperHexDigits ==
    <<48, 49, 50, 51, 52, 53, 54, 55, 56, 57, 65, 66, 67, 68, 69, 70>>

\* the j-th upper-case hexadecimal digit of a byte string, two per byte
HexDigitAt(bytes, j) ==
    LET byte == bytes[(j + 1) \div 2]
    IN  UpperHexDigits[(IF j % 2 = 1 THEN byte \div 16 ELSE byte % 16) + 1]

\* the bytes in upper-case hexadecimal
HexText(bytes) == [j \in 1..(2 * Len(bytes)) |-> HexDigitAt(bytes, j)]

\* 16 bytes as 36 characters: hexadecimal digits in groups of 8-4-4-4-12
\* with "-" at the places 9, 14, 19 and 24
UuidText(bytes) ==
    [k \in 1..36 |->
        IF k \in {9, 14, 19, 24} THEN 45
        ELSE HexDigitAt(bytes, k - Cardinality({h \in {9, 14, 19, 24} : h < k}))]

\* C13: a 0x004C payload of at least 23 bytes that starts 0x02 0x15 decodes
\* to the iBeacon whose UUID is bytes 2-17 in order as upper-case hexadecimal
\* grouped 8-4-4-4-12, whose major is byte 18 * 256 + byte 19 and whose minor
\* is byte 20 * 256 + byte 21; nothing else (byte 22, later bytes, the rest
\* of the buffer) enters the result.
C13_IBeaconFields ==
    (/\ lastCall.called
     /\ ValidIBeaconEntry(lastCall.event))
    => LET bytes == PayloadBytes(lastCall.event.manufacturerData[APPLE])
       IN  lastCall.beaconData =
               [type  |-> "iBeacon",
                uuid  |-> UuidText(SubSeq(bytes, 3, 18)),
                major |-> bytes[19] * 256 + bytes[20],
                minor |-> bytes[21] * 256 + bytes[22]]

\* the documented UUID with major 1 and minor 256, byte 22 = 0x00 followed by
\* two more bytes, the payload lying inside a larger buffer
C13_Witness ==
    /\ lastCall.called
    /\ APPLE \in DOMAIN lastCall.event.manufacturerData
    /\ lastCall.event.manufacturerData[APPLE] =
          View(<<9, 9, 2, 21, 1, 2, 3, 4, 5, 6, 7, 8, 9, 10, 11, 12, 13, 14,
                 15, 16, 0, 1, 1, 0, 0, 7, 7, 100>>, 2, 25)
    /\ lastCall.beaconData =
          [type  |-> "iBeacon",
           \* "01020304-0506-0708-090A-0B0C0D0E0F10"
           uuid  |-> <<48, 49, 48, 50, 48, 51, 48, 52, 45, 48, 53, 48, 54, 45,
                       48, 55, 48, 56, 45, 48, 57, 48, 65, 45, 48, 66, 48, 67,
                       48, 68, 48, 69, 48, 70, 49, 48>>,
           major |-> 1,
           minor |-> 256]

\* the packet has no 0x004C entry and an 0xFEAA entry
EddystoneEntry(event) ==
    /\ APPLE \notin DOMAIN event.manufacturerData
    /\ EDDYSTONE \in DOMAIN event.serviceData

\* the payload with the byte at the given offset replaced
WithByte(data, offset, value) ==
    [data EXCEPT !.buffer[data.byteOffset + offset + 1] = value]

\* C14: the Eddystone decoder goes by byte 0 of the payload alone: 0x00 (with
\* at least 18 bytes) gives the UID record whose namespace is bytes 2-11 and
\* whose instance is bytes 12-17 in hexadecimal, 0x10 (at least 4 bytes) a URL
\* record, 0x20 (at least 14 bytes) a TLM record, every other value null; the
\* result is the same for every value of byte 1.
C14_EddystoneDispatch ==
    (/\ lastCall.called
     /\ EddystoneEntry(lastCall.event)
     /\ lastCall.event.serviceData[EDDYSTONE].byteLength >= 2)
    => LET data   == lastCall.event.serviceData[EDDYSTONE]
           bytes  == PayloadBytes(data)
           result == lastCall.beaconData
       IN  /\ (bytes[1] = 0 /\ Len(bytes) >= 18) =>
                 result = [type      |-> "Eddystone-UID",
                           namespace |-> HexText(SubSeq(bytes, 3, 12)),
                           instance  |-> HexText(SubSeq(bytes, 13, 18))]
           /\ (bytes[1] = 16 /\ Len(bytes) >= 4) =>
                 result.type = "Eddystone-URL"
           /\ (bytes[1] = 32 /\ Len(bytes) >= 14) =>
                 result.type = "Eddystone-TLM"
           /\ bytes[1] \notin {0, 16, 32} => result = Null
           /\ \A tx \in TxPowers : parseEddystone(WithByte(data, 1, tx)) = result

\* a UID frame with TX power 0xC8 inside a larger buffer: namespace
\* "0102030405060708090A", instance "0B0C0D0E0F10"
C14_Witness ==
    /\ lastCall.called
    /\ EddystoneEntry(lastCall.event)
    /\ lastCall.event.serviceData[EDDYSTONE] =
          View(<<9, 9, 0, 200, 1, 2, 3, 4, 5, 6, 7, 8, 9, 10, 11, 12, 13, 14,
                 15, 16, 100>>, 2, 18)
    /\ lastCall.beaconData =
          [type      |-> "Eddystone-UID",
           namespace |-> <<48, 49, 48, 50, 48, 51, 48, 52, 48, 53, 48, 54, 48,
                           55, 48, 56, 48, 57, 48, 65>>,
           instance  |-> <<48, 66, 48, 67, 48, 68, 48, 69, 48, 70, 49, 48>>]

\* the packet's 0xFEAA entry is a URL frame of at least 4 bytes
UrlFrame(event) ==
    /\ EddystoneEntry(event)
    /\ event.serviceData[EDDYSTONE].byteLength >= 4
    /\ PayloadBytes(event.serviceData[EDDYSTONE])[1] = 16

\* the text of a scheme byte: 0 "http://www.", 1 "https://www.", 2 "http://",
\* 3 "https://", nothing for any other value
SchemeText(schemeCode) ==
    CASE schemeCode = 0 -> <<104, 116, 116, 112, 58, 47, 47, 119, 119, 119, 46>>
      [] schemeCode = 1 ->
             <<104, 116, 116, 112, 115, 58, 47, 47, 119, 119, 119, 46>>
      [] schemeCode = 2 -> <<104, 116, 116, 112, 58, 47, 47>>
      [] schemeCode = 3 -> <<104, 116, 116, 112, 115, 58, 47, 47>>
      [] OTHER -> <<>>

\* the text of one encoded byte: its entry of the expansion table below 14,
\* itself as one character otherwise
ByteText(byte) == IF byte < 14 THEN expansions[byte + 1] ELSE <<byte>>

RECURSIVE BodyText(_)
\* the texts of the encoded bytes, in order
BodyText(body) ==
    IF body = <<>> THEN <<>>
    ELSE BodyText(SubSeq(body, 1, Len(body) - 1)) \o ByteText(body[Len(body)])

\* the URL a URL frame's own bytes stand for: scheme byte 2, body from byte 3
UrlText(bytes) ==
    SchemeText(bytes[3]) \o BodyText(SubSeq(bytes, 4, Len(bytes)))

\* C15: the URL decoded from a URL frame starts with the text of the scheme
\* byte (nothing for a scheme byte above 3) followed by the texts of the
\* payload's bytes 3.. in payload order, each byte below 14 as its expansion
\* and every other byte as one character; for a payload that ends where its
\* buffer ends the URL is exactly that.
C15_UrlDecoding ==
    (lastCall.called /\ UrlFrame(lastCall.event))
    => LET data  == lastCall.event.serviceData[EDDYSTONE]
           text  == UrlText(PayloadBytes(data))
           url   == lastCall.beaconData.url
       IN  /\ lastCall.beaconData.type = "Eddystone-URL"
           /\ Len(url) >= Len(text)
           /\ SubSeq(url, 1, Len(text)) = text
           /\ data.byteOffset + data.byteLength = Len(data.buffer) => url = text

\* the documented frame [0x10,0x00,0x00,'e','x','a','m','p','l','e',0x00]
\* decodes to "http://www.example.com/"
C15_Witness ==
    /\ lastCall.called
    /\ UrlFrame(lastCall.event)
    /\ lastCall.event.serviceData[EDDYSTONE] =
          Whole(<<16, 0, 0, 101, 120, 97, 109, 112, 108, 101, 0>>)
    /\ lastCall.beaconData =
          [type |-> "Eddystone-URL",
           url  |-> <<104, 116, 116, 112, 58, 47, 47, 119, 119, 119, 46, 101,
                      120, 97, 109, 112, 108, 101, 46, 99, 111, 109, 47>>]

\* C16: for every scheme code 0..3 and every suffix that is the text of a
\* string of encoded bytes (expansion-table entries and literal characters,
\* at least one), the URL frame that carries encodeUrl(scheme, suffix)
\* decodes to the scheme's text followed by the suffix; a packet that carries
\* exactly that frame is classified so.
C16_UrlRoundTrip ==
    (/\ lastCall.called
     /\ UrlFrame(lastCall.event)
     /\ PayloadBytes(lastCall.event.serviceData[EDDYSTONE])[3] \in 0..3)
    => LET data       == lastCall.event.serviceData[EDDYSTONE]
           bytes      == PayloadBytes(data)
           schemeCode == bytes[3]
           suffix     == BodyText(SubSeq(bytes, 4, Len(bytes)))
           frame      == Whole(<<16, 0>> \o encodeUrl(schemeCode, suffix))
           original   == [type |-> "Eddystone-URL",
                          url  |-> SchemeText(schemeCode) \o suffix]
       IN  /\ parseEddystone(frame) = original
           /\ data = frame => lastCall.beaconData = original

\* the suffix "a.com/", built from "a", ".co" and "m/", is encoded as 'a' and
\* code 0 and comes back as "https://www.a.com/"
C16_Witness ==
    /\ lastCall.called
    /\ UrlFrame(lastCall.event)
    /\ lastCall.event.serviceData[EDDYSTONE] =
          Whole(<<16, 0>> \o encodeUrl(1, <<97, 46, 99, 111, 109, 47>>))
    /\ encodeUrl(1, <<97, 46, 99, 111, 109, 47>>) = <<1, 97, 0>>
    /\ lastCall.beaconData =
          [type |-> "Eddystone-URL",
           url  |-> <<104, 116, 116, 112, 115, 58, 47, 47, 119, 119, 119, 46,
                      97, 46, 99, 111, 109, 47>>]

\* the characters of a decimal numeral without its sign
Unsigned(text) == IF text # <<>> /\ text[1] = 45 THEN Tail(text) ELSE text

\* text has the form of a number with exactly the given count of decimals:
\* an optional "-", the integer part without needless leading zeros, ".",
\* the decimals
IsFixedText(text, digits) ==
    LET body  == Unsigned(text)
        point == Len(body) - digits
    IN  /\ point >= 2
        /\ body[point] = 46
        /\ \A i \in 1..Len(body) : i # point => body[i] \in 48..57
        /\ point > 2 => body[1] # 48

RECURSIVE DigitsValue(_)
\* the number a string of decimal digits denotes
DigitsValue(digits) ==
    IF digits = <<>> THEN 0
    ELSE DigitsValue(SubSeq(digits, 1, Len(digits) - 1)) * 10
         + (digits[Len(digits)] - 48)

\* the number a text of the form IsFixedText denotes, in units of the last
\* decimal ("-0.50" with 2 decimals is -50)
FixedValue(text, digits) ==
    LET body  == Unsigned(text)
        point == Len(body) - digits
        value == DigitsValue(SubSeq(body, 1, point - 1)
                             \o SubSeq(body, point + 1, Len(body)))
    IN  IF text[1] = 45 THEN -value ELSE value

\* the distance of two integers
Distance(a, b) == IF a >= b THEN a - b ELSE b - a

\* the packet's 0xFEAA entry is a TLM frame of at least 14 bytes
TlmFrame(event) ==
    /\ EddystoneEntry(event)
    /\ event.serviceData[EDDYSTONE].byteLength >= 14
    /\ PayloadBytes(event.serviceData[EDDYSTONE])[1] = 32

\* C17: a TLM frame of at least 14 bytes gives battery = the unsigned 16-bit
\* value of bytes 2-3, temperature = the signed 16-bit value of bytes 4-5
\* divided by 256 (which is signed byte 4 plus byte 5 / 256, negative or
\* not), shown with two decimals, packets = the unsigned 32-bit value of
\* bytes 6-9 and uptime = the unsigned 32-bit value of bytes 10-13 divided by
\* 10, shown with one decimal; the documented frame gives 3000, "21.50", 100
\* and "3600.0".
C17_TlmFields ==
    (lastCall.called /\ TlmFrame(lastCall.event))
    => LET bytes  == PayloadBytes(lastCall.event.serviceData[EDDYSTONE])
           result == lastCall.beaconData
           word   == bytes[5] * 256 + bytes[6]
           raw    == IF word >= 32768 THEN word - 65536 ELSE word
           signed == IF bytes[5] >= 128 THEN bytes[5] - 256 ELSE bytes[5]
       IN  /\ DOMAIN result =
                 {"type", "battery", "temperature", "packets", "uptime"}
           /\ result.type = "Eddystone-TLM"
           /\ result.battery = bytes[3] * 256 + bytes[4]
           /\ signed * 256 + bytes[6] = raw
           /\ IsFixedText(result.temperature, 2)
           /\ (result.temperature[1] = 45) = (raw < 0)
           \* |shown - raw / 256| <= 0.005
           /\ Distance(256 * FixedValue(result.temperature, 2), 100 * raw) <= 128
           /\ result.packets =
                 ((bytes[7] * 256 + bytes[8]) * 256 + bytes[9]) * 256 + bytes[10]
           /\ IsFixedText(result.uptime, 1)
           /\ FixedValue(result.uptime, 1) =
                 ((bytes[11] * 256 + bytes[12]) * 256 + bytes[13]) * 256
                 + bytes[14]
           /\ bytes = <<32, 0, 11, 184, 21, 128, 0, 0, 0, 100, 0, 0, 140, 160>>
              => result = [type        |-> "Eddystone-TLM",
                           battery     |-> 3000,
                           temperature |-> <<50, 49, 46, 53, 48>>,
                           packets     |-> 100,
                           uptime      |-> <<51, 54, 48, 48, 46, 48>>]

\* the documented frame with the temperature bytes 0xFF,0x80: -128 / 256 is
\* shown as "-0.50"
C17_Witness ==
    /\ lastCall.called
    /\ TlmFrame(lastCall.event)
    /\ lastCall.event.serviceData[EDDYSTONE] =
          Whole(<<32, 0, 11, 184, 255, 128, 0, 0, 0, 100, 0, 0, 140, 160>>)
    /\ lastCall.beaconData =
          [type        |-> "Eddystone-TLM",
           battery     |-> 3000,
           temperature |-> <<45, 48, 46, 53, 48>>,
           packets     |-> 100,
           uptime      |-> <<51, 54, 48, 48, 46, 48>>]

\* the packet's only entry that a rule looks at is a 0x0499 payload
RuuviEntry(event) ==
    /\ APPLE \notin DOMAIN event.manufacturerData
    /\ EDDYSTONE \notin DOMAIN event.serviceData
    /\ RUUVI \in DOMAIN event.manufacturerData

\* C18: a 0x0499 payload of at least 24 bytes with format byte 0x05 gives
\* temperature = the signed 16-bit value of bytes 1-2 times 0.005, humidity =
\* the unsigned 16-bit value of bytes 3-4 times 0.0025, pressure = (the
\* unsigned 16-bit value of bytes 5-6 + 50000) / 100, each shown with two
\* decimals, and battery = (the unsigned 16-bit value of bytes 7-8 shifted
\* right by 5) + 1600, which lies in 1600..3647 and is the same for all low 5
\* bits; the bytes 0x01,0x90 / 0x4E,0x20 / 0x13,0x88 give "2.00", "50.00",
\* "550.00". A non-empty payload with any other format byte gives null.
C18_RuuviFields ==
    (/\ lastCall.called
     /\ RuuviEntry(lastCall.event)
     /\ lastCall.event.manufacturerData[RUUVI].byteLength >= 1)
    => LET data   == lastCall.event.manufacturerData[RUUVI]
           bytes  == PayloadBytes(data)
           result == lastCall.beaconData
       IN  IF bytes[1] # 5 THEN result = Null
           ELSE Len(bytes) >= 24 =>
             LET word    == bytes[2] * 256 + bytes[3]
                 raw     == IF word >= 32768 THEN word - 65536 ELSE word
                 humid   == bytes[4] * 256 + bytes[5]
                 press   == bytes[6] * 256 + bytes[7]
                 battery == bytes[8] * 256 + bytes[9]
             IN  /\ DOMAIN result = {"type", "temperature", "humidity",
                                     "pressure", "battery"}
                 /\ result.type = "RuuviTag Sensor"
                 /\ IsFixedText(result.temperature, 2)
                 /\ (result.temperature[1] = 45) = (raw < 0)
                 \* |shown - raw * 0.005| <= 0.005
                 /\ Distance(2 * FixedValue(result.temperature, 2), raw) <= 1
                 /\ IsFixedText(result.humidity, 2)
                 \* |shown - raw * 0.0025| <= 0.005
                 /\ Distance(4 * FixedValue(result.humidity, 2), humid) <= 2
                 /\ IsFixedText(result.pressure, 2)
                 /\ FixedValue(result.pressure, 2) = press + 50000
                 /\ result.battery = (battery \div 32) + 1600
                 /\ result.battery \in 1600..3647
                 /\ \A low \in {0, 21, 31} :
                       parseRuuviTag(WithByte(data, 8,
                           bytes[9] - (bytes[9] % 32) + low)).battery
                       = result.battery
                 /\ SubSeq(bytes, 2, 7) = <<1, 144, 78, 32, 19, 136>>
                    => /\ result.temperature = <<50, 46, 48, 48>>
                       /\ result.humidity = <<53, 48, 46, 48, 48>>
                       /\ result.pressure = <<53, 53, 48, 46, 48, 48>>

\* the documented payload with the battery word 0xAAFF: "2.00", "50.00",
\* "550.00" and 43775 >> 5 = 1367, battery 2967
C18_Witness ==
    /\ lastCall.called
    /\ RuuviEntry(lastCall.event)
    /\ lastCall.event.manufacturerData[RUUVI] = RuuviPayload
    /\ lastCall.beaconData =
          [type        |-> "RuuviTag Sensor",
           temperature |-> <<50, 46, 48, 48>>,
           humidity    |-> <<53, 48, 46, 48, 48>>,
           pressure    |-> <<53, 53, 48, 46, 48, 48>>,
           battery     |-> 2967]

\* what each packet of a scanning session classifies as
PacketResult(manufacturerData, serviceData) ==
    CASE manufacturerData = (APPLE :> IBeaconPayload) /\ serviceData = NoMap ->
             [type  |-> "iBeacon",
              \* "01020304-0506-0708-090A-0B0C0D0E0F10"
              uuid  |-> <<48, 49, 48, 50, 48, 51, 48, 52, 45, 48, 53, 48, 54,
                          45, 48, 55, 48, 56, 45, 48, 57, 48, 65, 45, 48, 66,
                          48, 67, 48, 68, 48, 69, 48, 70, 49, 48>>,
              major |-> 1,
              minor |-> 2]
      [] manufacturerData = (APPLE :> AppleShort) /\ serviceData = NoMap ->
             Null
      [] manufacturerData = NoMap /\ serviceData = (EDDYSTONE :> UidPayload) ->
             [type      |-> "Eddystone-UID",
              \* "010203040506070809AB", "0102030405FF"
              namespace |-> <<48, 49, 48, 50, 48, 51, 48, 52, 48, 53, 48, 54,
                              48, 55, 48, 56, 48, 57, 65, 66>>,
              instance  |-> <<48, 49, 48, 50, 48, 51, 48, 52, 48, 53, 70, 70>>]
      [] manufacturerData = NoMap /\ serviceData = (EDDYSTONE :> TlmPayload) ->
             [type        |-> "Eddystone-TLM",
              battery     |-> 3000,
              temperature |-> <<50, 49, 46, 53, 48>>,
              packets     |-> 100,
              uptime      |-> <<51, 54, 48, 48, 46, 48>>]
      [] manufacturerData = (RUUVI :> EmptyPayload) /\ serviceData = NoMap ->
             RangeError

\* C19: what a packet classifies as is fixed by its manufacturer-data and
\* service-data maps alone: in every state of a session (whatever the Map
\* holds, whichever scan is running, whatever was handled before, whichever
\* device and rssi the packet has) the same packet has the same result.
C19_ResultByPacketAlone ==
    lastCall.called =>
        lastCall.beaconData = PacketResult(lastCall.event.manufacturerData,
                                           lastCall.event.serviceData)

\* in a second scan, a TLM frame of a device that is known as an iBeacon
\* classifies as the TLM record
C19_Witness ==
    /\ lastCall.called
    /\ ~lastCall.isNew
    /\ Len(scans) = 2
    /\ lastCall.event.serviceData = (EDDYSTONE :> TlmPayload)
    /\ discoveredDevices[lastCall.event.device.id].type = "iBeacon"
    /\ lastCall.beaconData.type = "Eddystone-TLM"
    /\ lastCall.beaconData.battery = 3000

\* C20 as claimed: the URL decoded from a URL frame is the text of the
\* payload's own bytes, scheme byte 2 and bytes 3 up to the payload's length;
\* no byte that lies behind the payload in its buffer contributes to it.
C20_UrlFromPayloadOnly ==
    (lastCall.called /\ UrlFrame(lastCall.event))
    => lastCall.beaconData.url =
           UrlText(PayloadBytes(lastCall.event.serviceData[EDDYSTONE]))

----------------------------------------------------------------------------
(* The buttons, the listener and the scan handle                           *)

\* startScan is suspended at its await: the request is neither granted nor
\* rejected yet
Pending == requesting

\* C21: the start and the stop button are never both enabled; the
\* advertisement listener is registered exactly when the stop button is
\* enabled; while a scan request is pending both buttons are disabled and no
\* listener is registered.
C21_ButtonsAndListener ==
    /\ ~(~startDisabled /\ ~stopDisabled)
    /\ listener <=> ~stopDisabled
    /\ Pending => (startDisabled /\ stopDisabled /\ ~listener)

\* a second scan request is pending, after a first scan was granted and
\* stopped with a stop() that threw
C21_Witness ==
    /\ Pending
    /\ Len(scans) = 1
    /\ bleScan = 1
    /\ startDisabled
    /\ stopDisabled
    /\ ~listener

\* a step of stopScan: the only code that disables the stop button
StopStep == ~stopDisabled /\ stopDisabled'

\* a step in which requestLEScan resolves: a new scan object exists
GrantStep == Len(scans') = Len(scans) + 1

\* C22: stopScan ends with the start button enabled, the stop button
\* disabled and the listener removed, whether stop() returns or throws. The
\* scan handle is null afterwards exactly when stop() returned (the scan is
\* stopped); when stop() threw, the handle and the scan are as before. The
\* next granted request overwrites the handle, and a scan the old handle
\* still referred to is left as it was, not stopped.
C22_StopScanOutcome ==
    [][/\ StopStep =>
            /\ ~startDisabled' /\ stopDisabled' /\ ~listener'
            /\ bleScan # 0
            /\ \/ /\ bleScan' = 0
                  /\ scans[bleScan]
                  /\ scans' = [scans EXCEPT ![bleScan] = FALSE]
               \/ /\ bleScan' = bleScan
                  /\ scans' = scans
       /\ GrantStep =>
            /\ bleScan' = Len(scans')
            /\ \A i \in 1..Len(scans) : scans'[i] = scans[i]]_vars

\* a second scan was granted while the handle still held the first scan,
\* whose stop() had thrown: the first scan is still active and no handle of
\* it is left
C22_Witness ==
    /\ Len(scans) = 2
    /\ bleScan = 2
    /\ scans[1]
    /\ listener
    /\ ~stopDisabled

\* a step in which a click starts a scan request: startScan reaches its await
ClickStep == ~Pending /\ Pending'

\* a step in which the pending request is rejected: startScan's catch block
RejectStep == Pending /\ ~Pending' /\ ~GrantStep

\* what a failed startScan must leave alone: the stop button, the listener,
\* the scan handle, the scan objects and the registry with its cards' order
Untouched ==
    UNCHANGED <<stopDisabled, listener, bleScan, scans, discoveredDevices,
                resultsDiv>>

\* C23: a startScan that obtains no scan leaves the system as it was before
\* the click. The click finds the start button enabled, the stop button
\* disabled and no listener, and only disables the start button; nothing
\* that happens while the request is pending touches the stop button, the
\* listener, the handle or the registry; the rejection enables the start
\* button again and touches none of them either. With Web Bluetooth missing
\* the page stays for ever as it was loaded.
C23_FailedStartRestores ==
    /\ [](~bluetooth =>
            /\ startDisabled /\ stopDisabled /\ ~listener /\ ~Pending
            /\ bleScan = 0
            /\ discoveredDevices = NoMap)
    /\ [][/\ ClickStep =>
               /\ ~startDisabled /\ stopDisabled /\ ~listener
               /\ startDisabled'
               /\ Untouched
          /\ (Pending /\ Pending') => (startDisabled' /\ Untouched)
          /\ RejectStep =>
               /\ ~startDisabled' /\ stopDisabled' /\ ~listener'
               /\ Untouched]_vars

\* a start click is waiting for its outcome, start button disabled, while
\* the handle still holds the scan whose stop() threw and the registry holds
\* a device: the state in which the request is rejected
C23_Witness ==
    /\ Pending
    /\ startDisabled
    /\ bleScan = 1
    /\ scans = <<TRUE>>
    /\ DOMAIN discoveredDevices # {}
    /\ resultsDiv # <<>>

----------------------------------------------------------------------------
(* The result list                                                         *)

\* the card elements the registry entries reference
RegistryCards ==
    {discoveredDevices[d].cardElement : d \in DOMAIN discoveredDevices}

\* the card elements that are children of resultsDiv
ListedCards == {resultsDiv[i] : i \in 1..Len(resultsDiv)}

\* C24: the result list holds one card per registry entry and no other
\* card; each entry references its own card (the one created for its device
\* id); the list shows the cards in reverse order of creation, the newest
\* first. A successful packet of a known device (an RSSI update) leaves the
\* list, the number of cards and the registry as they are.
C24_OneCardPerEntry ==
    /\ [](/\ ListedCards = RegistryCards
          /\ Len(resultsDiv) = Cardinality(DOMAIN discoveredDevices)
          /\ Cardinality(ListedCards) = Len(resultsDiv)
          /\ \A d \in DOMAIN discoveredDevices :
                 /\ discoveredDevices[d].cardElement \in 1..Len(cards)
                 /\ cards[discoveredDevices[d].cardElement].deviceId = d
          /\ \A i \in 1..Len(resultsDiv), j \in 1..Len(resultsDiv) :
                 i < j => resultsDiv[i] > resultsDiv[j])
    /\ [][(Succeeded(lastCall') /\ ~lastCall'.isNew) =>
            /\ resultsDiv' = resultsDiv
            /\ Len(cards') = Len(cards)
            /\ discoveredDevices' = discoveredDevices]_vars

\* two devices have a card each, the newer card on top, and the older
\* device's card has just had its RSSI updated
C24_Witness ==
    /\ Succeeded(lastCall)
    /\ ~lastCall.isNew
    /\ resultsDiv = <<2, 1>>
    /\ Cardinality(DOMAIN discoveredDevices) = 2
    /\ discoveredDevices[lastCall.event.device.id].cardElement = 1
    /\ cards[1].rssi = lastCall.event.rssi

====
